---- MODULE Spec2Model ----
(***************************************************************************)
(* ally/Watchlist/__init__.py: the Watchlist mapping (the account's        *)
(* watchlists, with a 0.75 s cache of their names) and WatchlistWrapper    *)
(* (one watchlist's symbols as a mutable set with a local cache).          *)
(*                                                                         *)
(* Every method is one action: the requests it issues are executed against *)
(* the remote account inside the action, in the order the code issues      *)
(* them, and are recorded in call.reqs.  The request classes of            *)
(* ally/Watchlist/methods.py are not part of the sources at hand; they are *)
(* modelled from the specification's collaborator contract.                *)
(*                                                                         *)
(* Time is counted in quarter seconds, so timedelta(seconds=0.75) is 3.    *)
(***************************************************************************)
EXTENDS Integers, Sequences, FiniteSets

\* ------------------------------------------------------------------ bounds
Names   == {"w1", "w2"}
Symbols == {"AAPL", "GOOGL"}
MaxLen  == 2        \* longest symbol sequence handed to a call
MaxTime == 4        \* the clock stops here (quarter seconds)

\* ------------------------------------------------------------- constants
TTL  == 3           \* timedelta(seconds=0.75), in quarter seconds
None == -1          \* _expire = None: no fetch has set an expiry yet

VARIABLES
    now,            \* datetime.now(), in quarter seconds
    remote,         \* the account on the server: watchlist name -> its symbols
    constructed,    \* Watchlist.__init__ has returned an instance
    _expire,        \* Watchlist._expire
    _lists,         \* Watchlist._lists
    wrapped,        \* a WatchlistWrapper has been handed to the caller
    _name,          \* WatchlistWrapper._name
    _syms,          \* WatchlistWrapper._syms
    lastFetch,      \* when the instance last issued GetWatchlists (None: never)
    call,           \* the call that ran last: arguments, requests, outcome
    race            \* two callers inside add and update of one wrapper

vars == <<now, remote, constructed, _expire, _lists, wrapped, _name, _syms,
          lastFetch, call, race>>

\* ------------------------------------------------------------ arguments
SymSeqs == UNION {[1..n -> Symbols] : n \in 0..MaxLen}
StrArg(s)  == [kind |-> "str",  str |-> s,  list |-> <<>>]
ListArg(l) == [kind |-> "list", str |-> "", list |-> l]
NoArg      == [kind |-> "none", str |-> "", list |-> <<>>]
SymArgs    == {StrArg(s) : s \in Symbols} \cup {ListArg(l) : l \in SymSeqs}

\* set(x) of a python sequence
SeqToSet(s) == {s[i] : i \in 1..Len(s)}

\* if isinstance(x, str): x = [x]
AsList(x) == IF x.kind = "str" THEN <<x.str>> ELSE x.list

\* ------------------------------------------------------------- requests
\* a request as the call log keeps it, with how the request layer answered
Req(kind, name, syms, resp) ==
    [req |-> kind, name |-> name, syms |-> syms, resp |-> resp]
Response(r, result, err) == [remote |-> r, result |-> result, err |-> err]

\* FetchOne(watchlist_name) -> the symbols of the list; NotFoundError when the
\* service has no such list
GetWatchlist_request(r, name, fail) ==
    IF fail THEN Response(r, {}, "TransportError")
    ELSE IF name \notin DOMAIN r THEN Response(r, {}, "NotFoundError")
    ELSE Response(r, r[name], "ok")

\* FetchAll() -> the names of the account's watchlists
GetWatchlists_request(r, fail) ==
    IF fail THEN Response(r, {}, "TransportError")
    ELSE Response(r, DOMAIN r, "ok")

\* Create(watchlist_name, symbols): creates the list; on a list that exists
\* the service appends
CreateWatchlist_request(r, name, syms, fail) ==
    IF fail THEN Response(r, {}, "TransportError")
    ELSE Response([n \in DOMAIN r \cup {name} |->
                      IF n = name
                      THEN (IF name \in DOMAIN r THEN r[name] ELSE {})
                               \cup SeqToSet(syms)
                      ELSE r[n]], {}, "ok")

\* Append(watchlist_name, symbols): appending to a list that does not exist
\* does nothing
AppendWatchlist_request(r, name, syms, fail) ==
    IF fail THEN Response(r, {}, "TransportError")
    ELSE IF name \notin DOMAIN r THEN Response(r, {}, "ok")
    ELSE Response([r EXCEPT ![name] = @ \cup SeqToSet(syms)], {}, "ok")

\* DeleteList(watchlist_name) -> success, RemoteError on non-success
DeleteWatchlist_request(r, name, fail) ==
    IF fail \/ name \notin DOMAIN r THEN Response(r, {}, "RemoteError")
    ELSE Response([n \in DOMAIN r \ {name} |-> r[n]], {}, "ok")

\* DeleteSymbol(watchlist_name, symbol) -> success, RemoteError on non-success
DeleteFromWatchlist_request(r, name, sym, fail) ==
    IF fail \/ name \notin DOMAIN r THEN Response(r, {}, "RemoteError")
    ELSE Response([r EXCEPT ![name] = @ \ {sym}], {}, "ok")

\* ------------------------------------------------------ WatchlistWrapper
\* what a method leaves behind: the account, the wrapper's cache, the requests
\* it issued in order, and "ok" or the exception it raised
Outcome(r, syms, reqs, err) ==
    [remote |-> r, syms |-> syms, reqs |-> reqs, err |-> err]

NoName == ""

\* python values of the two types the containment tests compare
PyStr(s) == [type |-> "str", str |-> s, set |-> {}]
PySet(S) == [type |-> "set", str |-> "", set |-> S]

\* set(x) in self._syms, with x a sequence of symbols: list containment
\* compares the set with every cached symbol, each of them a str
SetInSyms(xs, syms) == \E e \in syms : PyStr(e) = PySet(SeqToSet(xs))

\* set(x) of a str: its characters
CharsOf(x) ==
    CASE x = "AAPL"  -> {"A", "P", "L"}
      [] x = "GOOGL" -> {"G", "O", "L"}
      [] OTHER       -> {}

\* WatchlistWrapper.__contains__(x): set(x) in self._syms
WatchlistWrapper_contains(syms, x) ==
    \E e \in syms : PyStr(e) = PySet(CharsOf(x))

\* update that adds what it fetched to the cache instead of replacing it
WatchlistWrapper_update_merge(r, name, syms, fail) ==
    LET resp == GetWatchlist_request(r, name, fail)
    IN  Outcome(resp.remote,
                IF resp.err = "ok" THEN syms \cup resp.result ELSE syms,
                <<Req("GetWatchlist", name, <<>>, resp.err)>>,
                resp.err)

\* WatchlistWrapper.update: self._syms = GetWatchlist(...).request()
WatchlistWrapper_update(r, name, syms, fail) ==
    LET resp == GetWatchlist_request(r, name, fail)
    IN  Outcome(resp.remote,
                IF resp.err = "ok" THEN resp.result ELSE syms,
                <<Req("GetWatchlist", name, <<>>, resp.err)>>,
                resp.err)

\* add that appends whatever the cache holds, and never creates
WatchlistWrapper_add_mutate_append_only(r, name, syms, xs, fail) ==
    LET resp == AppendWatchlist_request(r, name, xs, fail)
    IN  Outcome(resp.remote, syms,
                <<Req("AppendWatchlist", name, xs, resp.err)>>, resp.err)

\* the create / append part of WatchlistWrapper.add
WatchlistWrapper_add_mutate(r, name, syms, xs, fail) ==
    IF Cardinality(syms) = 0
    THEN LET resp == CreateWatchlist_request(r, name, xs, fail)
         IN  Outcome(resp.remote, syms,
                     <<Req("CreateWatchlist", name, xs, resp.err)>>, resp.err)
    ELSE IF ~SetInSyms(xs, syms)
    THEN LET resp == AppendWatchlist_request(r, name, xs, fail)
         IN  Outcome(resp.remote, syms,
                     <<Req("AppendWatchlist", name, xs, resp.err)>>, resp.err)
    ELSE Outcome(r, syms, <<>>, "ok")

\* add with the refresh issued before the create / append
WatchlistWrapper_add_refresh_first(r, name, syms, x, lazy, fail1, fail2) ==
    LET xs == AsList(x)
        u  == IF lazy THEN Outcome(r, syms, <<>>, "ok")
              ELSE WatchlistWrapper_update(r, name, syms, fail2)
    IN  IF u.err # "ok" THEN u
        ELSE LET m == WatchlistWrapper_add_mutate(u.remote, name, syms, xs, fail1)
             IN  Outcome(m.remote, u.syms, u.reqs \o m.reqs, m.err)

\* add that refreshes whatever lazy says
WatchlistWrapper_add_always_refresh(r, name, syms, x, lazy, fail1, fail2) ==
    LET xs == AsList(x)
        m  == WatchlistWrapper_add_mutate(r, name, syms, xs, fail1)
    IN  IF m.err # "ok" THEN m
        ELSE LET u == WatchlistWrapper_update(m.remote, name, m.syms, fail2)
             IN  Outcome(u.remote, u.syms, m.reqs \o u.reqs, u.err)

\* add that carries on to the refresh when its create / append raised
WatchlistWrapper_add_ignore_failure(r, name, syms, x, lazy, fail1, fail2) ==
    LET xs == AsList(x)
        m  == WatchlistWrapper_add_mutate(r, name, syms, xs, fail1)
    IN  IF ~lazy
        THEN LET u == WatchlistWrapper_update(m.remote, name, m.syms, fail2)
             IN  Outcome(u.remote, u.syms, m.reqs \o u.reqs, u.err)
        ELSE m

\* WatchlistWrapper.add(x, lazy)
WatchlistWrapper_add(r, name, syms, x, lazy, fail1, fail2) ==
    LET xs == AsList(x)
        m  == WatchlistWrapper_add_mutate(r, name, syms, xs, fail1)
    IN  IF m.err # "ok" THEN m
        ELSE IF ~lazy
        THEN LET u == WatchlistWrapper_update(m.remote, name, m.syms, fail2)
             IN  Outcome(u.remote, u.syms, m.reqs \o u.reqs, u.err)
        ELSE m

\* discard that also drops x from the local cache
WatchlistWrapper_discard_eager(r, name, syms, x, fail) ==
    IF x \in syms
    THEN LET resp == DeleteFromWatchlist_request(r, name, x, fail)
         IN  Outcome(resp.remote,
                     IF resp.err = "ok" THEN syms \ {x} ELSE syms,
                     <<Req("DeleteFromWatchlist", name, <<x>>, resp.err)>>,
                     resp.err)
    ELSE Outcome(r, syms, <<>>, "ok")

\* WatchlistWrapper.discard(x): the result of the request is dropped and
\* self._syms is not touched
WatchlistWrapper_discard(r, name, syms, x, fail) ==
    IF x \in syms
    THEN LET resp == DeleteFromWatchlist_request(r, name, x, fail)
         IN  Outcome(resp.remote, syms,
                     <<Req("DeleteFromWatchlist", name, <<x>>, resp.err)>>,
                     resp.err)
    ELSE Outcome(r, syms, <<>>, "ok")

\* WatchlistWrapper.__init__(parent, name, symbols): an empty or missing
\* symbols is falsy and makes the constructor fetch
WatchlistWrapper_init(r, name, symbols, fail) ==
    IF symbols # {}
    THEN Outcome(r, symbols, <<>>, "ok")
    ELSE WatchlistWrapper_update(r, name, {}, fail)

\* ------------------------------------------------------------ Watchlist
\* _all with the expiry test off by one instant (<= for <)
Watchlist_all_expired_at_expiry(r, expire, lists, t, fail) ==
    IF expire = None \/ expire <= t
    THEN LET resp == GetWatchlists_request(r, fail)
         IN  [expire |-> t + TTL,
              lists  |-> IF resp.err = "ok" THEN resp.result ELSE lists,
              reqs   |-> <<Req("GetWatchlists", NoName, <<>>, resp.err)>>,
              err    |-> resp.err]
    ELSE [expire |-> expire, lists |-> lists, reqs |-> <<>>, err |-> "ok"]

\* Watchlist._all: the expiry is written before the request is made; when the
\* request raises, _lists keeps what it held
Watchlist_all(r, expire, lists, t, fail) ==
    IF expire = None \/ expire < t
    THEN LET resp == GetWatchlists_request(r, fail)
         IN  [expire |-> t + TTL,
              lists  |-> IF resp.err = "ok" THEN resp.result ELSE lists,
              reqs   |-> <<Req("GetWatchlists", NoName, <<>>, resp.err)>>,
              err    |-> resp.err]
    ELSE [expire |-> expire, lists |-> lists, reqs |-> <<>>, err |-> "ok"]

\* __getitem__ that takes a list the service does not have for an empty one
Watchlist_getitem_missing_as_empty(r, name, fail1, fail2) ==
    LET resp == GetWatchlist_request(r, name, fail1)
        got  == <<Req("GetWatchlist", name, <<>>, resp.err)>>
    IN  IF resp.err = "NotFoundError" THEN Outcome(r, {}, got, "ok")
        ELSE IF resp.err # "ok" THEN Outcome(r, {}, got, resp.err)
        ELSE LET w == WatchlistWrapper_init(resp.remote, name, resp.result, fail2)
             IN  Outcome(w.remote, w.syms, got \o w.reqs, w.err)

\* Watchlist.__getitem__: fetch the symbols, wrap them
Watchlist_getitem(r, name, fail1, fail2) ==
    LET resp == GetWatchlist_request(r, name, fail1)
        got  == <<Req("GetWatchlist", name, <<>>, resp.err)>>
    IN  IF resp.err # "ok" THEN Outcome(r, {}, got, resp.err)
        ELSE LET w == WatchlistWrapper_init(resp.remote, name, resp.result, fail2)
             IN  Outcome(w.remote, w.syms, got \o w.reqs, w.err)

\* __delitem__ that builds the request and never sends it
Watchlist_delitem_unsent(r, name, fail) ==
    Outcome(r, {}, <<>>, "ok")

\* __delitem__ that catches what the request raises
Watchlist_delitem_swallow(r, name, fail) ==
    LET resp == DeleteWatchlist_request(r, name, fail)
    IN  Outcome(resp.remote, {},
                <<Req("DeleteWatchlist", name, <<>>, resp.err)>>, "ok")

\* Watchlist.__delitem__: the request's exception, if any, is the caller's
Watchlist_delitem(r, name, fail) ==
    LET resp == DeleteWatchlist_request(r, name, fail)
    IN  Outcome(resp.remote, {},
                <<Req("DeleteWatchlist", name, <<>>, resp.err)>>, resp.err)

\* MutableMapping.pop(key), which Watchlist inherits: value = self[key], then
\* del self[key]
Watchlist_pop(r, name, fail1, fail2, fail3) ==
    LET g == Watchlist_getitem(r, name, fail1, fail2)
    IN  IF g.err # "ok" THEN g
        ELSE LET d == Watchlist_delitem(g.remote, name, fail3)
             IN  Outcome(d.remote, g.syms, g.reqs \o d.reqs, d.err)

\* the attributes an instance of Watchlist has: the class sets _auth and
\* _expire, __init__ sets _auth, _all sets _expire and _lists.  Nothing ever
\* sets watched (the update() that would is commented out).
Watchlist_dict == [_auth |-> "auth", _expire |-> _expire, _lists |-> _lists]

\* Watchlist.__setitem__ from the test of name against the attribute on; f
\* says which of its (up to five) requests fail
FailFlags == [1..5 -> BOOLEAN]
NoFail == [i \in 1..5 |-> FALSE]
\* a call that raises before its first request has no request to fail
SetItemFlags(dict) == IF "watched" \in DOMAIN dict THEN FailFlags ELSE {NoFail}
Watchlist_setitem_body(r, watched, name, symbols, f) ==
    LET p  == IF name \in watched
              THEN Watchlist_pop(r, name, f[1], f[2], f[3])
              ELSE Outcome(r, {}, <<>>, "ok")
        xs == AsList(symbols)
    IN  IF p.err # "ok" THEN Outcome(p.remote, {}, p.reqs, p.err)
        ELSE LET c == CreateWatchlist_request(p.remote, name, xs, f[4])
                 creq == p.reqs \o <<Req("CreateWatchlist", name, xs, c.err)>>
             IN  IF c.err # "ok" THEN Outcome(c.remote, {}, creq, c.err)
                 ELSE LET w == WatchlistWrapper_init(c.remote, name, {}, f[5])
                      IN  Outcome(w.remote, w.syms, creq \o w.reqs, w.err)

\* Watchlist.__setitem__: reads self.watched first
Watchlist_setitem(r, dict, name, symbols, f) ==
    IF "watched" \notin DOMAIN dict
    THEN Outcome(r, {}, <<>>, "AttributeError")
    ELSE Watchlist_setitem_body(r, dict["watched"], name, symbols, f)

\* Mapping.__contains__(key), which Watchlist inherits: try self[key], a
\* KeyError is False, anything else raised is the caller's.  Whether the
\* request layer's not-found error is a KeyError is not known.
Watchlist_contains(r, name, fail1, fail2, isKeyError) ==
    LET g == Watchlist_getitem(r, name, fail1, fail2)
    IN  [remote |-> g.remote, reqs |-> g.reqs,
         err    |-> IF g.err = "NotFoundError" /\ isKeyError THEN "ok" ELSE g.err,
         bool   |-> g.err = "ok"]

\* ------------------------------------------------------------------ calls
\* ret: the names or symbols a call returned (the cache a wrapper was built
\* on, for __getitem__); bool: what a membership test returned
Call(op, name, x, lazy, reqs, err, ret, bool) ==
    [op |-> op, name |-> name, x |-> x, lazy |-> lazy, reqs |-> reqs,
     outcome |-> err, ret |-> ret, bool |-> bool]

NoCall == Call("none", NoName, NoArg, FALSE, <<>>, "ok", {}, FALSE)

\* one caller inside a method: where it is, what its fetch returned, what it
\* raised
Caller(pc, got, err) == [pc |-> pc, got |-> got, err |-> err]

\* the two callers of the race: one in add(x), one in update(); early: the
\* update fetched before the add's create / append reached the service;
\* last: whose assignment to _syms came last
Race(x, add, upd, early, last) ==
    [x |-> x, add |-> add, upd |-> upd, early |-> early, last |-> last]

NoRace == Race(NoArg, Caller("none", {}, "ok"), Caller("none", {}, "ok"),
               FALSE, "none")

\* the accounts a run may start from
Accounts == UNION {[D -> SUBSET Symbols] : D \in SUBSET Names}

Init ==
    /\ now = 0
    /\ remote \in Accounts
    /\ constructed = FALSE
    /\ _expire = None
    /\ _lists = {}
    /\ wrapped = FALSE
    /\ _name = NoName
    /\ _syms = {}
    /\ lastFetch = None
    /\ call = NoCall
    /\ race = NoRace

\* time passes between calls
Tick ==
    /\ now < MaxTime
    /\ now' = now + 1
    /\ UNCHANGED <<race, remote, constructed, _expire, _lists, wrapped, _name, _syms,
                   lastFetch, call>>

\* Watchlist.__init__: ends with a read of self._all.  When that raises the
\* caller gets no instance.
Construct ==
    /\ ~constructed
    /\ \E a \in {Watchlist_all(remote, None, {}, now, fail) : fail \in BOOLEAN} :
          /\ constructed' = (a.err = "ok")
          /\ _expire' = IF a.err = "ok" THEN a.expire ELSE None
          /\ _lists' = IF a.err = "ok" THEN a.lists ELSE {}
          /\ lastFetch' = IF a.err = "ok" THEN now ELSE None
          /\ call' = Call("__init__", NoName, NoArg, FALSE, a.reqs, a.err,
                          {}, FALSE)
    /\ UNCHANGED <<race, now, remote, wrapped, _name, _syms>>

\* a read of the name list through self._all
Read(op) ==
    /\ constructed
    /\ \E a \in {Watchlist_all(remote, _expire, _lists, now, fail) :
                    fail \in BOOLEAN} :
          /\ _expire' = a.expire
          /\ _lists' = a.lists
          /\ lastFetch' = IF a.reqs # <<>> THEN now ELSE lastFetch
          /\ call' = Call(op, NoName, NoArg, FALSE, a.reqs, a.err,
                          IF a.err = "ok" THEN a.lists ELSE {}, FALSE)
    /\ UNCHANGED <<race, now, remote, constructed, wrapped, _name, _syms>>

\* Watchlist.__iter__, __len__, __str__
Iter == Read("__iter__")
Len_ == Read("__len__")
Str  == Read("__str__")

GetItem(name) ==
    /\ constructed
    /\ \E g \in {Watchlist_getitem(remote, name, fail1, fail2) :
                    fail1, fail2 \in BOOLEAN} :
          /\ remote' = g.remote
          /\ wrapped' = (wrapped \/ g.err = "ok")
          /\ _name' = IF g.err = "ok" THEN name ELSE _name
          /\ _syms' = IF g.err = "ok" THEN g.syms ELSE _syms
          /\ call' = Call("__getitem__", name, NoArg, FALSE, g.reqs, g.err,
                          g.syms, FALSE)
    /\ UNCHANGED <<race, now, constructed, _expire, _lists, lastFetch>>

SetItem(name, symbols) ==
    /\ constructed
    /\ \E s \in {Watchlist_setitem(remote, Watchlist_dict, name, symbols, f) :
                    f \in SetItemFlags(Watchlist_dict)} :
          /\ remote' = s.remote
          /\ call' = Call("__setitem__", name, symbols, FALSE, s.reqs, s.err,
                          {}, FALSE)
    /\ UNCHANGED <<race, now, constructed, _expire, _lists, lastFetch, wrapped, _name,
                   _syms>>

\* del collection[name] that also drops the name cache
DelItem_invalidate(name) ==
    /\ constructed
    /\ \E d \in {Watchlist_delitem(remote, name, fail) : fail \in BOOLEAN} :
          /\ remote' = d.remote
          /\ call' = Call("__delitem__", name, NoArg, FALSE, d.reqs, d.err,
                          {}, FALSE)
          /\ _expire' = IF d.err = "ok" THEN None ELSE _expire
    /\ UNCHANGED <<race, now, constructed, _lists, lastFetch, wrapped, _name, _syms>>

DelItem(name) ==
    /\ constructed
    /\ \E d \in {Watchlist_delitem(remote, name, fail) : fail \in BOOLEAN} :
          /\ remote' = d.remote
          /\ call' = Call("__delitem__", name, NoArg, FALSE, d.reqs, d.err,
                          {}, FALSE)
    /\ UNCHANGED <<race, now, constructed, _expire, _lists, lastFetch, wrapped, _name,
                   _syms>>

Contains(name) ==
    /\ constructed
    /\ \E c \in {Watchlist_contains(remote, name, fail1, fail2, isKeyError) :
                    fail1, fail2, isKeyError \in BOOLEAN} :
          /\ remote' = c.remote
          /\ call' = Call("__contains__", name, NoArg, FALSE, c.reqs, c.err,
                          {}, c.bool)
    /\ UNCHANGED <<race, now, constructed, _expire, _lists, lastFetch, wrapped, _name,
                   _syms>>

\* a WatchlistWrapper method ran: it changed the account and its own cache
WrapperCall(op, x, lazy, o) ==
    /\ remote' = o.remote
    /\ _syms' = o.syms
    /\ call' = Call(op, _name, x, lazy, o.reqs, o.err, {}, FALSE)
    /\ UNCHANGED <<race, now, constructed, _expire, _lists, lastFetch, wrapped, _name>>

Add(x, lazy) ==
    /\ wrapped
    /\ \E o \in {WatchlistWrapper_add(remote, _name, _syms, x, lazy, fail1, fail2) :
                    fail1, fail2 \in BOOLEAN} :
          WrapperCall("add", x, lazy, o)

Update ==
    /\ wrapped
    /\ \E o \in {WatchlistWrapper_update(remote, _name, _syms, fail) :
                    fail \in BOOLEAN} :
          WrapperCall("update", NoArg, FALSE, o)

Discard(x) ==
    /\ wrapped
    /\ \E o \in {WatchlistWrapper_discard(remote, _name, _syms, x, fail) :
                    fail \in BOOLEAN} :
          WrapperCall("discard", StrArg(x), FALSE, o)

\* WatchlistWrapper.__iter__, __len__, __str__: the local cache, no request
WrapperRead(op) ==
    /\ wrapped
    /\ call' = Call(op, _name, NoArg, FALSE, <<>>, "ok", _syms, FALSE)
    /\ UNCHANGED <<race, now, remote, constructed, _expire, _lists, lastFetch, wrapped,
                   _name, _syms>>

\* x in wrapper
WrapperContains(x) ==
    /\ wrapped
    /\ call' = Call("wrapper.__contains__", _name, StrArg(x), FALSE, <<>>, "ok",
                    {}, WatchlistWrapper_contains(_syms, x))
    /\ UNCHANGED <<race, now, remote, constructed, _expire, _lists, lastFetch, wrapped,
                   _name, _syms>>

WrapperIter == WrapperRead("wrapper.__iter__")
WrapperLen  == WrapperRead("wrapper.__len__")
WrapperStr  == WrapperRead("wrapper.__str__")

\* ------------------------------------------------------- specifications
\* the Watchlist mapping and its name cache, with time passing
Next ==
    \/ Tick
    \/ Construct
    \/ Iter
    \/ Len_
    \/ Str
    \/ \E n \in Names : GetItem(n)
    \/ \E n \in Names : \E s \in SymArgs : SetItem(n, s)
    \/ \E n \in Names : DelItem(n)
    \/ \E n \in Names : Contains(n)

Spec == Init /\ [][Next]_vars

\* one WatchlistWrapper and the calls that reach its watchlist: a Watchlist
\* built at time 0 hands out the wrapper.  No WatchlistWrapper method reads
\* or writes the clock or the name cache.
InitWrapper ==
    /\ now = 0
    /\ remote \in Accounts
    /\ constructed = TRUE
    /\ _expire = TTL
    /\ _lists = DOMAIN remote
    /\ wrapped = FALSE
    /\ _name = NoName
    /\ _syms = {}
    /\ lastFetch = 0
    /\ call = Call("__init__", NoName, NoArg, FALSE,
                   <<Req("GetWatchlists", NoName, <<>>, "ok")>>, "ok", {}, FALSE)
    /\ race = NoRace

NextWrapper ==
    \/ \E n \in Names : GetItem(n)
    \/ \E n \in Names : DelItem(n)
    \/ \E x \in SymArgs : \E lazy \in BOOLEAN : Add(x, lazy)
    \/ Update
    \/ \E x \in Symbols : Discard(x)
    \/ \E x \in Symbols : WrapperContains(x)
    \/ WrapperIter
    \/ WrapperLen
    \/ WrapperStr

SpecWrapper == InitWrapper /\ [][NextWrapper]_vars

\* two callers on one WatchlistWrapper, no lock: one runs add(x) with lazy
\* false, the other update().  A caller can be overtaken wherever it waits
\* for a request, and between the answer to GetWatchlist and the assignment
\* of it to self._syms.
InitRace ==
    /\ now = 0
    /\ remote \in Accounts
    /\ constructed = TRUE
    /\ _expire = TTL
    /\ _lists = DOMAIN remote
    /\ lastFetch = 0
    /\ wrapped = TRUE
    /\ _name \in DOMAIN remote
    /\ _syms = Watchlist_getitem(remote, _name, FALSE, FALSE).syms
    /\ call = Call("__getitem__", _name, NoArg, FALSE,
                   Watchlist_getitem(remote, _name, FALSE, FALSE).reqs, "ok",
                   _syms, FALSE)
    /\ \E x \in SymArgs :
          race = Race(x, Caller("start", {}, "ok"), Caller("start", {}, "ok"),
                      FALSE, "none")

RaceFrame ==
    UNCHANGED <<now, constructed, _expire, _lists, lastFetch, wrapped, _name,
                call>>

\* add, lines 57-73: the create or append request
AddMutate ==
    /\ race.add.pc = "start"
    /\ \E m \in {WatchlistWrapper_add_mutate(remote, _name, _syms,
                                             AsList(race.x), fail) :
                    fail \in BOOLEAN} :
          /\ remote' = m.remote
          /\ race' = [race EXCEPT
                        !.add = IF m.err = "ok"
                                THEN Caller("mutated", {}, "ok")
                                ELSE Caller("done", {}, m.err)]
    /\ UNCHANGED _syms
    /\ RaceFrame

\* add, lines 75-76 and 79-82: the request of its update()
AddFetch ==
    /\ race.add.pc = "mutated"
    /\ \E resp \in {GetWatchlist_request(remote, _name, fail) :
                       fail \in BOOLEAN} :
          race' = [race EXCEPT
                     !.add = IF resp.err = "ok"
                             THEN Caller("fetched", resp.result, "ok")
                             ELSE Caller("done", {}, resp.err)]
    /\ UNCHANGED <<remote, _syms>>
    /\ RaceFrame

\* add whose update() keeps what it fetched in a local and never assigns it
AddAssign_local ==
    /\ race.add.pc = "fetched"
    /\ race' = [race EXCEPT !.add.pc = "done", !.last = "add"]
    /\ UNCHANGED <<remote, _syms>>
    /\ RaceFrame

\* add, line 79: self._syms = what its update() fetched
AddAssign ==
    /\ race.add.pc = "fetched"
    /\ _syms' = race.add.got
    /\ race' = [race EXCEPT !.add.pc = "done", !.last = "add"]
    /\ UNCHANGED remote
    /\ RaceFrame

\* update, lines 79-82: the request
UpdateFetch ==
    /\ race.upd.pc = "start"
    /\ \E resp \in {GetWatchlist_request(remote, _name, fail) :
                       fail \in BOOLEAN} :
          race' = [race EXCEPT
                     !.upd = IF resp.err = "ok"
                             THEN Caller("fetched", resp.result, "ok")
                             ELSE Caller("done", {}, resp.err),
                     !.early = (race.add.pc = "start")]
    /\ UNCHANGED <<remote, _syms>>
    /\ RaceFrame

\* update, line 79: self._syms = what it fetched
UpdateAssign ==
    /\ race.upd.pc = "fetched"
    /\ _syms' = race.upd.got
    /\ race' = [race EXCEPT !.upd.pc = "done", !.last = "update"]
    /\ UNCHANGED remote
    /\ RaceFrame

NextRace ==
    \/ AddMutate
    \/ AddFetch
    \/ AddAssign
    \/ UpdateFetch
    \/ UpdateAssign

SpecRace == InitRace /\ [][NextRace]_vars

\* ------------------------------------------------------------- claims
ReadOps == {"__iter__", "__len__", "__str__"}

\* the call issued a request of this kind
Issued(c, kind) == \E i \in 1..Len(c.reqs) : c.reqs[i].req = kind

\* every request the call issued was answered with success
AllAnswered(c) == \A i \in 1..Len(c.reqs) : c.reqs[i].resp = "ok"

\* C1: a read of the name list (iterate, len, str, and the read that ends
\* __init__) issues a fetch-all request if and only if the instance has
\* issued none yet or the read is more than 0.75 s after the last one; any
\* other read issues no request and returns the cached list, which it leaves
\* as it was.
C1_ReadFetchesIffExpired ==
    [][(now' = now /\ call'.op \in ReadOps \cup {"__init__"}) =>
          /\ Issued(call', "GetWatchlists")
                <=> (lastFetch = None \/ now > lastFetch + TTL)
          /\ ~Issued(call', "GetWatchlists") =>
                /\ call'.reqs = <<>>
                /\ call'.outcome = "ok"
                /\ call'.ret = _lists
                /\ _lists' = _lists]_vars

\* a read after the cache expired fetched again
C1_Witness ==
    /\ call.op \in ReadOps
    /\ Issued(call, "GetWatchlists")
    /\ call.outcome = "ok"
    /\ now > TTL

\* C2: collection[n] = s, for n not on the account, completes, and a
\* collection[n] that follows returns a wrapper whose symbols are the set of s.
C2_SetThenGetReturnsSymbols ==
    [][(/\ now' = now
        /\ call'.op = "__setitem__"
        /\ call'.name \notin DOMAIN remote
        /\ AllAnswered(call')) =>
          LET g == Watchlist_getitem(remote', call'.name, FALSE, FALSE)
          IN  /\ call'.outcome = "ok"
              /\ g.err = "ok"
              /\ g.syms = SeqToSet(AsList(call'.x))]_vars

\* C3: an add(x) with lazy false that completes issues exactly one fetch-one
\* request, as its last request, after its create or append request, and
\* the local cache is what that request returned.
C3_EagerAddRefreshesOnceAfterMutation ==
    (call.op = "add" /\ ~call.lazy /\ call.outcome = "ok") =>
        LET n == Len(call.reqs)
        IN  /\ n >= 1
            /\ call.reqs[n].req = "GetWatchlist"
            /\ call.reqs[n].name = _name
            /\ \A i \in 1..(n - 1) :
                  call.reqs[i].req \in {"CreateWatchlist", "AppendWatchlist"}
            /\ _name \in DOMAIN remote
            /\ _syms = remote[_name]

\* an eager add appended to a watchlist and then refreshed a cache that
\* lacked a symbol
C3_Witness ==
    /\ call.op = "add"
    /\ ~call.lazy
    /\ call.outcome = "ok"
    /\ Len(call.reqs) = 2
    /\ call.reqs[1].req = "AppendWatchlist"
    /\ SeqToSet(call.reqs[1].syms) \subseteq _syms

\* C4: an add(x, lazy=True) issues no fetch-one request and leaves the local
\* cache exactly as it was.
C4_LazyAddLeavesCache ==
    [][(call'.op = "add" /\ call'.lazy) =>
          /\ ~Issued(call', "GetWatchlist")
          /\ _syms' = _syms]_vars

\* a lazy add changed the watchlist on the account and the cache is behind
C4_Witness ==
    /\ call.op = "add"
    /\ call.lazy
    /\ call.outcome = "ok"
    /\ _name \in DOMAIN remote
    /\ _syms # remote[_name]

\* C5: discard(x) with x in the local cache issues exactly one delete-symbol
\* request and leaves the cache as it was; iterating or taking len right
\* after a successful discard still counts x.
C5_DiscardLeavesCache ==
    [][/\ (call'.op = "discard" /\ call'.x.str \in _syms) =>
              /\ Len(call'.reqs) = 1
              /\ call'.reqs[1].req = "DeleteFromWatchlist"
              /\ call'.reqs[1].name = _name
              /\ call'.reqs[1].syms = <<call'.x.str>>
              /\ _syms' = _syms
       /\ (/\ call.op = "discard"
           /\ call.outcome = "ok"
           /\ call.reqs # <<>>
           /\ call'.op \in {"wrapper.__iter__", "wrapper.__len__"}) =>
              /\ call.x.str \in call'.ret
              /\ Cardinality(call'.ret) = Cardinality(_syms)]_vars

\* a discard took x off the account's watchlist and x is still in the cache
C5_Witness ==
    /\ call.op = "discard"
    /\ call.outcome = "ok"
    /\ call.reqs # <<>>
    /\ call.x.str \in _syms
    /\ _name \in DOMAIN remote
    /\ call.x.str \notin remote[_name]

\* C6: collection[n] for n not on the account raises what the fetch-one
\* request raised, NotFoundError when the service answered, and hands out no
\* wrapper.
C6_GetMissingRaisesNotFound ==
    [][(/\ now' = now
        /\ call'.op = "__getitem__"
        /\ call'.name \notin DOMAIN remote) =>
          /\ Len(call'.reqs) = 1
          /\ call'.reqs[1].resp \in {"NotFoundError", "TransportError"}
          /\ call'.outcome = call'.reqs[1].resp
          /\ UNCHANGED <<wrapped, _name, _syms>>]_vars

\* a collection[n] raised NotFoundError
C6_Witness ==
    /\ call.op = "__getitem__"
    /\ call.outcome = "NotFoundError"
    /\ call.name \notin DOMAIN remote

\* C7: after a del collection[n] that succeeded, the next call, if it is
\* collection[n], raises (NotFoundError, unless the request itself failed)
\* and hands out no wrapper, however much time has passed.
C7_GetAfterDelRaisesNotFound ==
    [][(/\ call.op = "__delitem__"
        /\ call.outcome = "ok"
        /\ now' = now
        /\ call'.op = "__getitem__"
        /\ call'.name = call.name) =>
          /\ call'.outcome \in {"NotFoundError", "TransportError"}
          /\ call'.outcome = call'.reqs[1].resp
          /\ UNCHANGED <<wrapped, _name, _syms>>]_vars

\* collection[n] raised NotFoundError while the unexpired name cache lists n
C7_Witness ==
    /\ call.op = "__getitem__"
    /\ call.outcome = "NotFoundError"
    /\ call.name \in _lists
    /\ now <= _expire

\* C8: del collection[n] issues one delete-list request and raises
\* RemoteError whenever that request is answered with non-success.
C8_DeleteRaisesOnNonSuccess ==
    call.op = "__delitem__" =>
        /\ Len(call.reqs) = 1
        /\ call.reqs[1].req = "DeleteWatchlist"
        /\ call.reqs[1].name = call.name
        /\ call.reqs[1].resp # "ok" => call.outcome = "RemoteError"
        /\ call.reqs[1].resp = "ok" => call.outcome = "ok"

\* a del collection[n] raised RemoteError
C8_Witness ==
    /\ call.op = "__delitem__"
    /\ call.outcome = "RemoteError"

\* C9: name in collection is answered from the cached name list: true exactly
\* when the list holds name, and with no request at all within 0.75 s of the
\* last fetch-all.
C9_MembershipFromCache ==
    [][(now' = now /\ call'.op = "__contains__") =>
          /\ now <= lastFetch + TTL => call'.reqs = <<>>
          /\ AllAnswered(call') =>
                /\ call'.outcome = "ok"
                /\ call'.bool = (call'.name \in _lists')]_vars

\* C10: collection[name] = symbols with name in the cached name list issues
\* a delete-list request for name and after it the create request; with name
\* not in the cached list it issues the create request and no delete-list
\* request.
C10_SetDeletesThenCreates ==
    [][(now' = now /\ call'.op = "__setitem__" /\ AllAnswered(call')) =>
          LET rq == call'.reqs
              IsDel(i) == rq[i].req = "DeleteWatchlist" /\ rq[i].name = call'.name
              IsNew(i) == rq[i].req = "CreateWatchlist" /\ rq[i].name = call'.name
          IN  IF call'.name \in _lists
              THEN \E i, j \in 1..Len(rq) : i < j /\ IsDel(i) /\ IsNew(j)
              ELSE /\ \E j \in 1..Len(rq) : IsNew(j)
                   /\ ~\E i \in 1..Len(rq) : IsDel(i)]_vars

\* C11: del collection[name] and collection[name] = symbols leave the cached
\* name list and its expiry as they were; a read that follows within 0.75 s
\* of the last fetch-all issues no request and returns that same list.
C11_MutationsLeaveNameCache ==
    [][/\ (now' = now /\ call'.op \in {"__delitem__", "__setitem__"}) =>
              /\ _lists' = _lists
              /\ _expire' = _expire
       /\ (/\ call.op \in {"__delitem__", "__setitem__"}
           /\ now' = now
           /\ call'.op \in ReadOps
           /\ now <= lastFetch + TTL) =>
              /\ call'.reqs = <<>>
              /\ call'.ret = _lists
              /\ _lists' = _lists]_vars

\* a read answered from the cache names a watchlist the account no longer has
C11_Witness ==
    /\ call.op \in ReadOps
    /\ call.reqs = <<>>
    /\ call.outcome = "ok"
    /\ \E n \in call.ret : n \notin DOMAIN remote

\* C12: x in wrapper is true if and only if x is an element of the wrapper's
\* local cache.
C12_WrapperMembership ==
    call.op = "wrapper.__contains__" => call.bool = (call.x.str \in _syms)

\* C13: add(x) on a non-empty local cache issues an append request if and
\* only if some given symbol is not in the cache; when all of them are in the
\* cache it issues no create or append request.
C13_AppendOnlyNewSymbols ==
    [][(call'.op = "add" /\ _syms # {}) =>
          LET given == SeqToSet(AsList(call'.x))
          IN  /\ Issued(call', "AppendWatchlist") <=> ~(given \subseteq _syms)
              /\ given \subseteq _syms =>
                    /\ ~Issued(call', "AppendWatchlist")
                    /\ ~Issued(call', "CreateWatchlist")]_vars

\* C14: add(x) on an empty local cache issues exactly one create-list
\* request, first, and no append; on a non-empty cache it issues no
\* create-list request; a str x goes out as the one-element sequence [x].
C14_CreateIffCacheEmpty ==
    [][call'.op = "add" =>
          LET rq      == call'.reqs
              creates == {i \in 1..Len(rq) : rq[i].req = "CreateWatchlist"}
          IN  /\ IF _syms = {}
                 THEN /\ Cardinality(creates) = 1
                      /\ rq[1].req = "CreateWatchlist"
                      /\ rq[1].name = _name
                      /\ ~Issued(call', "AppendWatchlist")
                 ELSE creates = {}
              /\ call'.x.kind = "str" =>
                    \A i \in 1..Len(rq) :
                       rq[i].req \in {"CreateWatchlist", "AppendWatchlist"}
                          => rq[i].syms = <<call'.x.str>>]_vars

\* an add of a str created the watchlist with that one symbol
C14_Witness ==
    /\ call.op = "add"
    /\ call.x.kind = "str"
    /\ call.outcome = "ok"
    /\ call.reqs[1].req = "CreateWatchlist"
    /\ call.reqs[1].syms = <<call.x.str>>

\* C15: update() always issues one fetch-one request and, when it is
\* answered, the local cache is exactly its result; after a successful
\* discard(x), an update() that follows leaves x out of the cache.
C15_RefreshReplacesCache ==
    [][/\ call'.op = "update" =>
              /\ Len(call'.reqs) = 1
              /\ call'.reqs[1].req = "GetWatchlist"
              /\ call'.reqs[1].name = _name
              /\ call'.outcome = call'.reqs[1].resp
              /\ call'.outcome = "ok" => _syms' = remote[_name]
       /\ (/\ call.op = "discard"
           /\ call.outcome = "ok"
           /\ call.reqs # <<>>
           /\ call'.op = "update"
           /\ call'.outcome = "ok") =>
              call.x.str \notin _syms']_vars

\* an update() left the cache equal to the account's list, which lacks a symbol
C15_Witness ==
    /\ call.op = "update"
    /\ call.outcome = "ok"
    /\ _syms = remote[_name]
    /\ _syms # Symbols

\* C16: when the create or append request of add raises, add raises the
\* same, issues no further request (no retry, no fetch-one) and leaves the
\* local cache as it was.
C16_FailedAddPropagates ==
    [][(/\ call'.op = "add"
        /\ call'.reqs # <<>>
        /\ call'.reqs[1].resp # "ok") =>
          /\ call'.outcome = call'.reqs[1].resp
          /\ Len(call'.reqs) = 1
          /\ _syms' = _syms]_vars

\* an eager add raised what its create or append request raised
C16_Witness ==
    /\ call.op = "add"
    /\ ~call.lazy
    /\ call.outcome = "TransportError"
    /\ Len(call.reqs) = 1
    /\ call.reqs[1].req \in {"CreateWatchlist", "AppendWatchlist"}

\* both callers of the race returned without raising
RaceDone ==
    /\ race.add.pc = "done"
    /\ race.upd.pc = "done"
    /\ race.add.err = "ok"
    /\ race.upd.err = "ok"

\* C17: with an update() and an add(x) (lazy false) of two callers
\* interleaved on one wrapper, once both have returned the cache is the
\* account's list unless the update() fetched before the add's request
\* reached the service and assigned after the add did; then the cache is
\* what that early fetch returned, and the account's list is the cache plus
\* the symbols of x.
C17_RaceLeavesEarlyFetch ==
    RaceDone =>
        IF race.early /\ race.last = "update"
        THEN /\ _syms = race.upd.got
             /\ remote[_name] = _syms \cup SeqToSet(AsList(race.x))
        ELSE _syms = remote[_name]

\* both calls have returned, the account's list has a symbol of x and the
\* cache does not
C17_Witness ==
    /\ RaceDone
    /\ \E e \in SeqToSet(AsList(race.x)) :
          e \in remote[_name] /\ e \notin _syms

\* C18: a read whose fetch-all request raises leaves the stored name list
\* and the expiry as they were, so the next read, also within 0.75 s, issues
\* a fetch-all request again.
C18_FailedFetchLeavesCache ==
    [][/\ (/\ now' = now
           /\ call'.op \in ReadOps
           /\ Issued(call', "GetWatchlists")
           /\ call'.outcome # "ok") =>
              /\ _lists' = _lists
              /\ _expire' = _expire
       /\ (/\ call.op \in ReadOps
           /\ Issued(call, "GetWatchlists")
           /\ call.outcome # "ok"
           /\ now' = now
           /\ call'.op \in ReadOps) =>
              Issued(call', "GetWatchlists")]_vars

\* C19: collection[name] for a watchlist the account has issues exactly one
\* fetch-one request, whatever symbols the list holds, none included: the
\* wrapper built on the supplied symbols fetches nothing itself.
C19_GetIssuesOneFetch ==
    [][(/\ now' = now
        /\ call'.op = "__getitem__"
        /\ call'.name \in DOMAIN remote) =>
          /\ Len(call'.reqs) = 1
          /\ call'.reqs[1].req = "GetWatchlist"]_vars

\* C20: an add issues a create-list request only while the account has no
\* watchlist of the wrapper's name; a lazy add that follows a lazy add which
\* created the watchlist issues no create-list request.
C20_CreateOnlyWhenMissing ==
    [][/\ (call'.op = "add" /\ Issued(call', "CreateWatchlist")) =>
              _name \notin DOMAIN remote
       /\ (/\ call.op = "add"
           /\ call.lazy
           /\ call.outcome = "ok"
           /\ Issued(call, "CreateWatchlist")
           /\ call'.op = "add"
           /\ call'.lazy) =>
              ~Issued(call', "CreateWatchlist")]_vars

====
